---------------------------- MODULE Spec2Model ----------------------------
(***************************************************************************)
(* The similarity index of 3d-geometric-search: SimilaritySearch (a FAISS  *)
(* IndexFlatL2 plus the co-indexed list model_ids) and the IndexManager    *)
(* that owns it.  IndexManager's methods are coroutines of one asyncio     *)
(* event loop; SimilaritySearch.save is run on a thread of the loop's      *)
(* default executor, concurrently with the loop.  The FeatureExtractor     *)
(* that produces the descriptors is modelled on its own, further down.     *)
(*                                                                         *)
(* Numbers.  Stored vectors are unit vectors; a coordinate is kept as an   *)
(* integer count of 1/Scale, a squared distance as a count of 1/Scale^2    *)
(* and a similarity score as a count of 1/ScoreOne.  The input vectors     *)
(* have integral norms dividing Scale, so normalisation is exact; float32  *)
(* rounding is not modelled.                                               *)
(***************************************************************************)
EXTENDS Integers, Sequences, FiniteSets, TLC

\* Model scale: the index dimension (83 in the source), the model ids of the
\* catalog, the capacity of the index and the number of concurrent requests.
Dim == 2
MaxId == 2
MaxEntries == 2
NTasks == 2
MaxK == 3
\* The model ids that overlapping requests insert.
MaxConcId == 2

ModelIds == 1..MaxId
ConcIds == 1..MaxConcId
Tasks == 1..NTasks

Max(a, b) == IF a >= b THEN a ELSE b
Min(a, b) == IF a <= b THEN a ELSE b

RECURSIVE SumSq(_)
SumSq(v) == IF v = <<>> THEN 0 ELSE Head(v) * Head(v) + SumSq(Tail(v))

\* np.linalg.norm of one row (exact on the inputs used here).
Norm(v) == CHOOSE n \in 0..SumSq(v) : n * n <= SumSq(v) /\ (n + 1) * (n + 1) > SumSq(v)

Axis(i, c) == [j \in 1..Dim |-> IF j = i THEN c ELSE 0]
Oblique == [j \in 1..Dim |-> IF j = 1 THEN 3 ELSE IF j = 2 THEN 4 ELSE 0]

\* The unit of a stored coordinate is 1/Scale.
Scale == Norm(Oblique)
\* The score 1.0, in the unit of a similarity score.
ScoreOne == 4 * Scale * Scale * Scale * Scale

\* The feature vector the catalog holds for a model: 1 and 3 point the same
\* way (equal once normalised), 2 is orthogonal to both, 4 is oblique.
Feature(id) ==
    CASE id = 1 -> Axis(1, 2)
      [] id = 2 -> Axis(2, 1)
      [] id = 3 -> Axis(1, 1)
      [] id = 4 -> Oblique
      [] OTHER  -> Axis(((id - 1) % Dim) + 1, -1)

\* A vector one coordinate short: a length the index does not accept.
Short(v) == SubSeq(v, 1, Len(v) - 1)


\* SimilaritySearch._normalize_vectors, one row: a zero norm is replaced by 1.
NormalizeVectors(v) ==
    LET n == IF Norm(v) = 0 THEN 1 ELSE Norm(v)
    IN  [j \in 1..Len(v) |-> (v[j] * Scale) \div n]

RECURSIVE SqDist(_, _)
\* The squared L2 distance IndexFlatL2.search reports.
SqDist(a, b) ==
    IF a = <<>> \/ b = <<>> THEN 0
    ELSE (Head(a) - Head(b)) * (Head(a) - Head(b)) + SqDist(Tail(a), Tail(b))


(***************************************************************************)
(* SimilaritySearch: the engine's state is a record                        *)
(*   index      the FAISS index: its dimension d and its rows xb           *)
(*   model_ids  the identifier list                                        *)
(*   dimension  self.dimension                                             *)
(***************************************************************************)
NewIndex(d) == [d |-> d, xb |-> <<>>]
ntotal(ix) == Len(ix.xb)

\* SimilaritySearch.__init__ / _initialize_index
NewEngine(d) == [index |-> NewIndex(d), model_ids |-> <<>>, dimension |-> d]


\* The score of one hit, from the distance d FAISS reported (a squared L2
\* distance): max(0, 1 - d**2 / 4), in units of 1/ScoreOne.
Similarity(d) == Max(0, ScoreOne - d * d)

BeforeLaterFirst(dist, i, j) == dist[i] < dist[j] \/ (dist[i] = dist[j] /\ i > j)

\* IndexFlatL2.search on one query: the positions of the k nearest rows,
\* ascending by distance, rows at equal distance by ascending position.
Before(dist, i, j) == dist[i] < dist[j] \/ (dist[i] = dist[j] /\ i < j)
Rank(dist, i) == Cardinality({j \in DOMAIN dist : Before(dist, j, i)})
FaissSearch(xb, qn, k) ==
    LET dist == [i \in 1..Len(xb) |-> SqDist(qn, xb[i])]
        pos  == [r \in 1..k |-> CHOOSE i \in 1..Len(xb) : Rank(dist, i) = r - 1]
    IN  [r \in 1..k |-> [idx |-> pos[r], dist |-> dist[pos[r]]]]


\* SimilaritySearch.search.  strict: the FAISS wrapper's assertions
\* (d == self.d, k > 0) are enabled in this build; without them a search
\* for k = 0 neighbours returns no rows.
Search(eng, q, k, strict) ==
    IF Len(q) # eng.dimension THEN [out |-> "ValueError", hits |-> <<>>]
    ELSE
      LET qn == NormalizeVectors(q)
          kk == Min(k, ntotal(eng.index))
      IN  IF strict /\ (Len(q) # eng.index.d \/ kk <= 0)
            THEN [out |-> "AssertionError", hits |-> <<>>]
          ELSE
            LET found == FaissSearch(eng.index.xb, qn, kk)
            IN  IF \E r \in 1..kk : found[r].idx > Len(eng.model_ids)
                  THEN [out |-> "IndexError", hits |-> <<>>]
                  ELSE [out |-> "ok",
                        hits |-> [r \in 1..kk |->
                                    [id |-> eng.model_ids[found[r].idx],
                                     score |-> Similarity(found[r].dist)]]]

(***************************************************************************)
(* The durable index: two files, each missing, unreadable or holding what  *)
(* one write stored.                                                       *)
(***************************************************************************)
NoBlob == [st |-> "missing", d |-> 0, xb |-> <<>>]
BadBlob == [st |-> "corrupt", d |-> 0, xb |-> <<>>]
NoMeta == [st |-> "missing", model_ids |-> <<>>, dimension |-> 0]
BadMeta == [st |-> "corrupt", model_ids |-> <<>>, dimension |-> 0]

\* faiss.write_index(self.index, index_path)
WriteIndex(ix) == [st |-> "ok", d |-> ix.d, xb |-> ix.xb]

PickleDumpNoDimension(ids, dim) == [st |-> "ok", model_ids |-> ids, dimension |-> 0]

\* pickle.dump({"model_ids": ..., "dimension": ...}, f)
PickleDump(ids, dim) == [st |-> "ok", model_ids |-> ids, dimension |-> dim]

ReadIndexNarrower(blob) == [d |-> blob.d - 1, xb |-> blob.xb]

\* faiss.read_index(index_path)
ReadIndex(blob) == [d |-> blob.d, xb |-> blob.xb]



\* SimilaritySearch.load: nothing is read when a file is missing; the index
\* is replaced as soon as the blob is read, the identifiers and the
\* dimension only once the metadata is unpickled.  out = "error": the call
\* raised.
Load(eng, blob, meta) ==
    IF blob.st = "missing" \/ meta.st = "missing" THEN [eng |-> eng, out |-> "not_found"]
    ELSE IF blob.st = "corrupt" THEN [eng |-> eng, out |-> "error"]
    ELSE IF meta.st = "corrupt"
           THEN [eng |-> [eng EXCEPT !.index = ReadIndex(blob)], out |-> "error"]
    ELSE [eng |-> [index |-> ReadIndex(blob), model_ids |-> meta.model_ids,
                   dimension |-> meta.dimension],
          out |-> "ok"]


(***************************************************************************)
(* State.                                                                  *)
(***************************************************************************)
VARIABLES
    ready,          \* IndexManager._ready
    search_engine,  \* IndexManager.search_engine is not None
    index,          \* SimilaritySearch.index
    model_ids,      \* SimilaritySearch.model_ids
    dimension,      \* SimilaritySearch.dimension
    index_file,     \* the file at IndexManager.index_path
    metadata_file,  \* the file at IndexManager.metadata_path
    pc,             \* per request: where its coroutine, or its save job, stands
    op,             \* per request: the IndexManager method it runs
    arg,            \* per request: the (id, vector) rows still to be added
    loop,           \* the request whose coroutine runs on the event loop, or 0
    ev,             \* the step that led to this state
    inserted,       \* history: the ids add_model has inserted since the process
                    \* started and no rebuild performed since has omitted
    mesh,           \* the mesh handed to the feature extractor, or NoMesh
    feature_vector  \* what extract_features returned for it

vars == <<ready, search_engine, index, model_ids, dimension, index_file,
          metadata_file, pc, op, arg, loop, ev, inserted, mesh, feature_vector>>
extraction == <<mesh, feature_vector>>
memory == <<index, model_ids, dimension>>
disk == <<index_file, metadata_file>>
requests == <<pc, op, arg, loop>>

Engine == [index |-> index, model_ids |-> model_ids, dimension |-> dimension]

\* A step's label: the method, the statement it reached ("call": the call
\* ended where it started; "return": it ended after its save) and, for the
\* step that ends a call, how it ended.
Step(o, s) ==
    [op |-> o, step |-> s, out |-> "running", saved |-> FALSE,
     hits |-> <<>>, vec |-> <<>>, k |-> 0]
Return(o, out) == [Step(o, "return") EXCEPT !.out = out]
Called(o, out) == [Step(o, "call") EXCEPT !.out = out]

\* No mesh has been handed to the feature extractor.
NoMesh == [st |-> "none"]

Idle == [t \in Tasks |-> "idle"]
NoOp == [t \in Tasks |-> "none"]
NoArg == [t \in Tasks |-> <<>>]

Init ==
    /\ ready = FALSE
    /\ search_engine = FALSE
    /\ index = NewIndex(Dim)
    /\ model_ids = <<>>
    /\ dimension = Dim
    /\ index_file = NoBlob
    /\ metadata_file = NoMeta
    /\ pc = Idle
    /\ op = NoOp
    /\ arg = NoArg
    /\ loop = 0
    /\ ev = Return("__init__", "ok")
    /\ inserted = {}
    /\ mesh = NoMesh
    /\ feature_vector = <<>>

\* A coroutine starts, or resumes, only when no other coroutine is running:
\* the event loop runs one coroutine at a time, from one await to the next.
LoopFree == loop = 0

\* The slot a new request takes.
FreeTask(t) == pc[t] = "idle" /\ \A u \in Tasks : u < t => pc[u] # "idle"

\* IndexManager.initialize: a new engine of dimension 83 (Dim here), then
\* load, whose exception is caught; the manager is ready either way.
Initialize ==
    /\ ~ready
    /\ LoopFree
    /\ LET r == Load(NewEngine(Dim), index_file, metadata_file)
       IN  /\ index' = r.eng.index
           /\ model_ids' = r.eng.model_ids
           /\ dimension' = r.eng.dimension
           /\ ev' = Return("initialize", r.out)
    /\ search_engine' = TRUE
    /\ ready' = TRUE
    /\ UNCHANGED <<disk, requests, inserted, extraction>>

\* The process ends with no request in flight and starts again: a new
\* IndexManager, nothing in memory, the files as they were left.
Restart ==
    /\ ready
    /\ pc = Idle
    /\ ready' = FALSE
    /\ search_engine' = FALSE
    /\ index' = NewIndex(Dim)
    /\ model_ids' = <<>>
    /\ dimension' = Dim
    /\ pc' = Idle
    /\ op' = NoOp
    /\ arg' = NoArg
    /\ loop' = 0
    /\ ev' = Return("restart", "ok")
    /\ inserted' = {}
    /\ UNCHANGED <<disk, extraction>>

Row(id, v) == [id |-> id, fv |-> v]
RowIds(rows) == [i \in 1..Len(rows) |-> rows[i].id]
Range(s) == {s[i] : i \in 1..Len(s)}

\* index.add(vectors): the normalised rows are appended.
IndexAdd(ix, rows) ==
    [ix EXCEPT !.xb = @ \o [i \in 1..Len(rows) |-> NormalizeVectors(rows[i].fv)]]

ShapeMismatchLongerOnly(rows, dim) == Len(rows[1].fv) > dim

\* vectors.shape[1] != self.dimension
ShapeMismatch(rows, dim) == Len(rows[1].fv) # dim

NotInitializedUnchecked == FALSE

\* if not self._ready: raise RuntimeError("Index manager not initialized")
NotInitialized == ~ready

\* IndexManager.add_model up to index.add: the readiness check, then
\* add_vectors' dimension check and the append to the FAISS index.
AddModel(t, id, v) ==
    /\ FreeTask(t)
    /\ LoopFree
    /\ IF NotInitialized
         THEN /\ ev' = [Called("add_model", "RuntimeError") EXCEPT !.vec = v]
              /\ UNCHANGED <<memory, requests>>
       ELSE IF ShapeMismatch(<<Row(id, v)>>, dimension)
         THEN /\ ev' = [Called("add_model", "ValueError") EXCEPT !.vec = v]
              /\ UNCHANGED <<memory, requests>>
       ELSE /\ ntotal(index) < MaxEntries
            /\ Len(model_ids) < MaxEntries
            /\ index' = IndexAdd(index, <<Row(id, v)>>)
            /\ pc' = [pc EXCEPT ![t] = "ids_extend"]
            /\ op' = [op EXCEPT ![t] = "add_model"]
            /\ arg' = [arg EXCEPT ![t] = <<Row(id, v)>>]
            /\ loop' = t
            /\ ev' = [Step("add_model", "index.add") EXCEPT !.vec = v]
            /\ UNCHANGED <<model_ids, dimension>>
    /\ UNCHANGED <<ready, search_engine, disk, inserted, extraction>>

\* add_vectors' second statement, self.model_ids.extend(model_ids); the
\* caller then awaits _save_index, which hands save to an executor thread.
IdsExtend(t) ==
    /\ pc[t] = "ids_extend"
    /\ loop = t
    /\ model_ids' = model_ids \o RowIds(arg[t])
    /\ pc' = [pc EXCEPT ![t] = "save_blob"]
    /\ arg' = [arg EXCEPT ![t] = <<>>]
    /\ loop' = 0
    /\ ev' = Step(op[t], "model_ids.extend")
    /\ inserted' = IF op[t] = "rebuild_index" THEN inserted \cap Range(RowIds(arg[t]))
                   ELSE inserted \cup Range(RowIds(arg[t]))
    /\ UNCHANGED <<ready, search_engine, index, dimension, disk, op, extraction>>


(***************************************************************************)
(* The catalog a rebuild reads: db.query(Model3D).all(), rows in id order. *)
(* A row's feature_vector is the model's, or empty, or of another length.  *)
(***************************************************************************)
FvChoices(id) == {Feature(id), <<>>, Short(Feature(id))}
CatalogRows == UNION {{Row(id, v) : v \in FvChoices(id)} : id \in ModelIds}
Catalogs ==
    {c \in UNION {[1..n -> CatalogRows] : n \in 0..MaxEntries} :
        \A i \in 1..(Len(c) - 1) : c[i].id < c[i + 1].id}

\* The catalogs overlapping rebuilds read: every row with its vector.
ConcCatalogs == {c \in Catalogs : \A i \in 1..Len(c) : c[i].id \in ConcIds /\ c[i].fv = Feature(c[i].id)}

HasFeatureVector(row) == row.fv # <<>>
RaggedUnchecked(rows) == FALSE
\* np.array(vectors, dtype=np.float32) raises on rows of unequal length.
Ragged(rows) == \E i, j \in 1..Len(rows) : Len(rows[i].fv) # Len(rows[j].fv)

\* IndexManager.rebuild_index up to SimilaritySearch.rebuild_index's first
\* statement, self._initialize_index().  An empty catalog, and a catalog
\* with no feature vector, return before the engine is touched.
RebuildIndex(t, catalog) ==
    /\ FreeTask(t)
    /\ LoopFree
    /\ LET rows == SelectSeq(catalog, HasFeatureVector)
           done(out) == /\ ev' = Called("rebuild_index", out)
                        /\ UNCHANGED <<memory, requests>>
       IN  IF catalog = <<>> THEN done("no_models")
           ELSE IF rows = <<>> THEN done("no_vectors")
           ELSE IF Ragged(rows) THEN done("ValueError")
           ELSE IF ~search_engine THEN done("AttributeError")
           ELSE /\ index' = NewIndex(dimension)
                /\ pc' = [pc EXCEPT ![t] = "rb_clear"]
                /\ op' = [op EXCEPT ![t] = "rebuild_index"]
                /\ arg' = [arg EXCEPT ![t] = rows]
                /\ loop' = t
                /\ ev' = Step("rebuild_index", "_initialize_index")
                /\ UNCHANGED <<model_ids, dimension>>
    /\ UNCHANGED <<ready, search_engine, disk, inserted, extraction>>

RebuildKeepIds(t) ==
    /\ pc[t] = "rb_clear"
    /\ loop = t
    /\ pc' = [pc EXCEPT ![t] = "add_vectors"]
    /\ ev' = Step("rebuild_index", "model_ids.clear")
    /\ UNCHANGED <<ready, search_engine, memory, disk, op, arg, loop,
                   inserted, extraction>>

\* SimilaritySearch.rebuild_index's second statement, self.model_ids = [].
RebuildClear(t) ==
    /\ pc[t] = "rb_clear"
    /\ loop = t
    /\ model_ids' = <<>>
    /\ pc' = [pc EXCEPT ![t] = "add_vectors"]
    /\ ev' = Step("rebuild_index", "model_ids.clear")
    /\ UNCHANGED <<ready, search_engine, index, dimension, disk, op, arg, loop,
                   inserted, extraction>>

\* add_vectors as rebuild_index calls it: the dimension check, which raises
\* with the index already emptied, then the append to the FAISS index.
RebuildAddVectors(t) ==
    /\ pc[t] = "add_vectors"
    /\ loop = t
    /\ IF ShapeMismatch(arg[t], dimension)
         THEN /\ pc' = [pc EXCEPT ![t] = "idle"]
              /\ op' = [op EXCEPT ![t] = "none"]
              /\ arg' = [arg EXCEPT ![t] = <<>>]
              /\ loop' = 0
              /\ ev' = Return("rebuild_index", "ValueError")
              /\ UNCHANGED index
         ELSE /\ index' = IndexAdd(index, arg[t])
              /\ pc' = [pc EXCEPT ![t] = "ids_extend"]
              /\ ev' = Step("rebuild_index", "index.add")
              /\ UNCHANGED <<op, arg, loop>>
    /\ UNCHANGED <<ready, search_engine, model_ids, dimension, disk, inserted,
                   extraction>>

\* IndexManager.shutdown: a final save when the manager is ready; _ready is
\* left as it is.
Shutdown(t) ==
    /\ FreeTask(t)
    /\ LoopFree
    /\ IF ready /\ search_engine
         THEN /\ pc' = [pc EXCEPT ![t] = "save_blob"]
              /\ op' = [op EXCEPT ![t] = "shutdown"]
              /\ ev' = Step("shutdown", "await _save_index")
              /\ UNCHANGED <<arg, loop>>
         ELSE /\ ev' = Called("shutdown", "ok")
              /\ UNCHANGED requests
    /\ UNCHANGED <<ready, search_engine, memory, disk, inserted, extraction>>

ReturnsRaising(t, saved) ==
    /\ pc' = [pc EXCEPT ![t] = "idle"]
    /\ op' = [op EXCEPT ![t] = "none"]
    /\ ev' = [Return(op[t], IF saved THEN "ok" ELSE "OSError") EXCEPT !.saved = saved]

\* The call that awaited the save returns: _save_index catches a failed
\* save, so the call ends normally either way.
Returns(t, saved) ==
    /\ pc' = [pc EXCEPT ![t] = "idle"]
    /\ op' = [op EXCEPT ![t] = "none"]
    /\ ev' = [Return(op[t], "ok") EXCEPT !.saved = saved]

\* SimilaritySearch.save on an executor thread, first statement:
\* faiss.write_index(self.index, index_path).  It runs whatever the event
\* loop is doing.  A failed write leaves the old file or an unreadable one.
SaveWriteIndex(t) ==
    /\ pc[t] = "save_blob"
    /\ \/ /\ index_file' = WriteIndex(index)
          /\ pc' = [pc EXCEPT ![t] = "save_meta"]
          /\ ev' = Step(op[t], "write_index")
          /\ UNCHANGED op
       \/ /\ index_file' \in {index_file, BadBlob}
          /\ Returns(t, FALSE)
    /\ UNCHANGED <<ready, search_engine, memory, metadata_file, arg, loop,
                   inserted, extraction>>

\* SimilaritySearch.save, second statement: pickle.dump of model_ids and
\* dimension as they are now.
SavePickleDump(t) ==
    /\ pc[t] = "save_meta"
    /\ \/ /\ metadata_file' = PickleDump(model_ids, dimension)
          /\ Returns(t, TRUE)
       \/ /\ metadata_file' \in {metadata_file, BadMeta}
          /\ Returns(t, FALSE)
    /\ UNCHANGED <<ready, search_engine, memory, index_file, arg, loop,
                   inserted, extraction>>

(***************************************************************************)
(* FeatureExtractor.  A mesh is what the extractor reads of it: whether it *)
(* has faces to sample, is_watertight, volume, the volume of its convex    *)
(* hull, whether computing it raises, extents, and the distances of the    *)
(* point pairs drawn for the D2 histogram.  A feature is kept as its name  *)
(* and an integer value: a histogram bin as its count, the convexity in    *)
(* units of 1/ConvexityOne, the others as the quantity they are the        *)
(* logarithm or the ratio of.  The final division by the L2 norm rescales  *)
(* every value and keeps its place; it is not modelled.                    *)
(***************************************************************************)
\* SimilaritySearch(dimension=83): the length of a descriptor
FeatureDim == 83
\* FeatureExtractor.__init__(d2_bins=64)
D2Bins == 64
\* range(3): the axes of a sampled point
Axes == 3
\* moments[:10]
NMoments == 10
\* np.clip(convexity, 0, 1): the value 1.0, in the unit of the convexity
ConvexityOne == 4

Feat(name, val) == [name |-> name, val |-> val]

\* Volumes: of an inverted mesh, of a mesh a quarter of its hull, of one the
\* hull computation finds larger than the hull.
Volumes == {-1, 1, 5}
HullVolumes == {0, 4}
ExtentChoices == {<<2, 1, 1>>, <<1, 0, 2>>}
PairDistances == {<<1, 1>>, <<1, 2, 4, 4>>}

Meshes ==
    [st : {"mesh"}, faces : BOOLEAN, watertight : BOOLEAN, volume : Volumes,
     hull : HullVolumes, hull_raises : BOOLEAN, extents : ExtentChoices,
     pairs : PairDistances]

RECURSIVE SeqMin(_)
SeqMin(s) == IF Len(s) = 1 THEN s[1] ELSE Min(s[1], SeqMin(Tail(s)))
RECURSIVE SeqMax(_)
SeqMax(s) == IF Len(s) = 1 THEN s[1] ELSE Max(s[1], SeqMax(Tail(s)))

\* np.histogram(distances, bins): equal-width bins over [min, max], the last
\* one closed; a single distance value falls in the middle bin.
HistogramBin(d, lo, hi, bins) ==
    IF lo = hi THEN (bins \div 2) + 1
    ELSE Min(bins, (((d - lo) * bins) \div (hi - lo)) + 1)

\* _compute_d2_descriptor: one value per histogram bin.
ComputeD2Descriptor(m, bins) ==
    LET lo == SeqMin(m.pairs)
        hi == SeqMax(m.pairs)
    IN  [b \in 1..bins |->
            Feat("d2", Cardinality({i \in 1..Len(m.pairs) :
                                      HistogramBin(m.pairs[i], lo, hi, bins) = b}))]

\* _compute_basic_features: five appends.
ComputeBasicFeatures(m) ==
    LET volume == IF m.watertight THEN m.volume ELSE 0
        compactness == IF m.watertight /\ volume > 0 THEN volume * volume ELSE 0
        aspect_ratio == IF SeqMin(m.extents) > 0
                          THEN SeqMax(m.extents) \div SeqMin(m.extents) ELSE 1
    IN  <<Feat("log_volume", volume), Feat("log_surface_area", 1),
          Feat("compactness", compactness), Feat("aspect_ratio", aspect_ratio),
          Feat("edge_density", 1)>>

\* _compute_bbox_features: the three ratios of the extents (0 stands for a
\* ratio over the 1e-10 that replaces a zero extent).
ComputeBboxFeatures(m) ==
    LET ratio(a, b) == IF b = 0 THEN 0 ELSE (a * ConvexityOne) \div b
    IN  <<Feat("ratio_xy", ratio(m.extents[1], m.extents[2])),
          Feat("ratio_yz", ratio(m.extents[2], m.extents[3])),
          Feat("ratio_xz", ratio(m.extents[1], m.extents[3]))>>

ClipBelowOnly(x, lo, hi) == Max(lo, x)

Clip(x, lo, hi) == Max(lo, Min(hi, x))

\* _compute_convexity: 0.5 for a mesh that is not watertight and when the
\* hull computation raises, 1.0 for a hull of no volume, else the clipped
\* ratio of the volumes.
ComputeConvexity(m) ==
    IF ~m.watertight THEN ConvexityOne \div 2
    ELSE IF m.hull_raises THEN ConvexityOne \div 2
    ELSE IF m.hull > 0 THEN Clip((m.volume * ConvexityOne) \div m.hull, 0, ConvexityOne)
    ELSE Clip(ConvexityOne, 0, ConvexityOne)

RECURSIVE AxisMoments(_)
\* for axis in range(3): append the mean, then the standard deviation
AxisMoments(n) ==
    IF n = 0 THEN <<>>
    ELSE AxisMoments(n - 1) \o <<Feat("mean", n), Feat("std", n)>>

SliceShorter(s, n) == SubSeq(s, 1, Min(Len(s), n - 1))

\* moments[:n]: a slice shortens a longer list and leaves a shorter one
Slice(s, n) == SubSeq(s, 1, Min(Len(s), n))

\* _compute_moments: mean and std per axis, the eigenvalues of the
\* covariance matrix (one per axis), its trace; then the first ten.
ComputeMoments(m) ==
    LET eigenvalues == [a \in 1..Axes |-> Feat("eigenvalue", a)]
    IN  Slice(Append(AxisMoments(Axes) \o eigenvalues, Feat("trace", 0)), NMoments)

\* extract_features: the five blocks in order.  Sampling the surface of a
\* mesh without faces raises.
ExtractFeatures(m) ==
    IF ~m.faces THEN [out |-> "error", features |-> <<>>]
    ELSE [out |-> "ok",
          features |-> ComputeD2Descriptor(m, D2Bins) \o ComputeBasicFeatures(m)
                         \o ComputeBboxFeatures(m)
                         \o <<Feat("convexity", ComputeConvexity(m))>>
                         \o ComputeMoments(m)]

\* A mesh is handed to the extractor.
Extract(m) ==
    /\ mesh' = m
    /\ feature_vector' = ExtractFeatures(m)
    /\ ev' = Called("extract_features", ExtractFeatures(m).out)
    /\ UNCHANGED <<ready, search_engine, memory, disk, requests, inserted>>

\* The extractor alone, over all the meshes.
NextExtract == \E m \in Meshes : Extract(m)

SpecExtract == Init /\ [][NextExtract]_vars


\* Queries: along the first axis, the zero vector (as far from one unit
\* vector as from another) and one too short.
Queries == {Axis(1, 2), Axis(1, 0), Short(Axis(1, 1))}
Ks == 1..MaxK

SearchMayRunOffLoop == TRUE

\* search_similar is a coroutine without an await: it runs on the event
\* loop from start to end.
SearchMayRun == LoopFree

SearchSimilarForgetting(q, k, strict) ==
    /\ SearchMayRun
    /\ LET r == IF NotInitialized THEN [out |-> "RuntimeError", hits |-> <<>>]
                ELSE Search(Engine, q, k, strict)
       IN  ev' = [Called("search_similar", r.out) EXCEPT !.hits = r.hits, !.vec = q, !.k = k]
    /\ model_ids' = IF Len(model_ids) > k THEN SubSeq(model_ids, 1, k) ELSE model_ids
    /\ UNCHANGED <<ready, search_engine, index, dimension, disk, requests, inserted,
                   extraction>>

\* IndexManager.search_similar
SearchSimilar(q, k, strict) ==
    /\ SearchMayRun
    /\ LET r == IF NotInitialized THEN [out |-> "RuntimeError", hits |-> <<>>]
                ELSE Search(Engine, q, k, strict)
       IN  ev' = [Called("search_similar", r.out) EXCEPT !.hits = r.hits, !.vec = q, !.k = k]
    /\ UNCHANGED <<ready, search_engine, memory, disk, requests, inserted,
                   extraction>>

AddInputs(id) == {Feature(id), Short(Feature(id))}

\* SimilaritySearch.remove_vector: False whether or not the id is indexed.
RemoveVector(id) ==
    /\ search_engine
    /\ ev' = [Called("remove_vector", "False") EXCEPT !.k = id]
    /\ UNCHANGED <<ready, search_engine, memory, disk, requests, inserted,
                   extraction>>

\* SimilaritySearch.get_stats
GetStats(eng) == [total_vectors |-> ntotal(eng.index), dimension |-> eng.dimension]

\* The steps between a call's start and its return.
Steps ==
    \/ \E t \in Tasks : IdsExtend(t)
    \/ \E t \in Tasks : RebuildClear(t)
    \/ \E t \in Tasks : RebuildAddVectors(t)
    \/ \E t \in Tasks : SaveWriteIndex(t)
    \/ \E t \in Tasks : SavePickleDump(t)

\* Requests overlap: any call may start while the save of another runs.
Next ==
    \/ Initialize
    \/ Restart
    \/ \E t \in Tasks, id \in ConcIds : AddModel(t, id, Feature(id))
    \/ \E t \in Tasks, catalog \in ConcCatalogs : RebuildIndex(t, catalog)
    \/ \E t \in Tasks : Shutdown(t)
    \/ \E strict \in BOOLEAN : SearchSimilar(Axis(2, 1), MaxK, strict)
    \/ Steps

Spec == Init /\ [][Next]_vars

\* One call at a time, each run to its return, over all the inputs.
NextSeq ==
    \/ pc = Idle /\ Initialize
    \/ pc = Idle /\ Restart
    \/ pc = Idle /\ \E id \in ModelIds : \E v \in AddInputs(id) : AddModel(1, id, v)
    \/ pc = Idle /\ \E catalog \in Catalogs : RebuildIndex(1, catalog)
    \/ pc = Idle /\ Shutdown(1)
    \/ pc = Idle /\ \E q \in Queries, k \in Ks, strict \in BOOLEAN : SearchSimilar(q, k, strict)
    \/ pc = Idle /\ \E id \in ModelIds : RemoveVector(id)
    \/ Steps

SpecSeq == Init /\ [][NextSeq]_vars


(***************************************************************************)
(* Claims.                                                                 *)
(***************************************************************************)
Quiescent == pc = Idle
Mutation == {"index.add", "model_ids.extend", "_initialize_index", "model_ids.clear"}
RebuildMidway(t) ==
    op[t] = "rebuild_index" /\ pc[t] \in {"rb_clear", "add_vectors", "ids_extend"}
Saving(t) == pc[t] \in {"save_blob", "save_meta"}

\* C1 (as claimed): between calls, the identifier list is as long as the
\* vector store, and position i of it names the vector stored at position i.
C1_IdsMatchVectors ==
    (Quiescent /\ search_engine) =>
        /\ Len(model_ids) = ntotal(index)
        /\ \A i \in 1..Len(model_ids) :
              index.xb[i] = NormalizeVectors(Feature(model_ids[i]))

\* C2 (as claimed): no add or rebuild mutation of the in-memory index falls
\* between a save's write of the index blob and its write of the identifier
\* list, and the pair of files a completed save leaves has one entry count.
C2_PersistExclusive ==
    /\ ~(ev.step \in Mutation /\ \E t \in Tasks : pc[t] = "save_meta")
    /\ (ev.step = "return" /\ ev.saved) =>
           Len(index_file.xb) = Len(metadata_file.model_ids)

\* C3: a search never runs while a rebuild stands between its first and its
\* last statement on the index: when a search has just run, every rebuild in
\* flight has all its rows and identifiers in place and only awaits its save.
C3_SearchSeesWholeRebuild ==
    ev.op = "search_similar" => \A t \in Tasks : ~RebuildMidway(t)

\* C3's case: a search answered while a rebuild is in flight.
C3_Witness ==
    /\ ev.op = "search_similar"
    /\ ev.out = "ok"
    /\ \E t \in Tasks : op[t] = "rebuild_index" /\ Saving(t)

\* The score the claim gives a hit at squared distance d: max(0, 1 - d/4).
ClaimedSimilarity(d) == Max(0, ScoreOne - (Scale * Scale) * d)

\* C4 (as claimed): every hit's score is max(0, 1 - d2/4), d2 the squared
\* distance between the normalised query and the normalised stored vector.
C4_ScoreIsOneMinusQuarterSquaredDistance ==
    (ev.op = "search_similar" /\ ev.out = "ok") =>
        LET found == FaissSearch(index.xb, NormalizeVectors(ev.vec), Len(ev.hits))
        IN  \A r \in 1..Len(ev.hits) :
               ev.hits[r].score = ClaimedSimilarity(found[r].dist)

\* C5 (as claimed): a rebuild from a catalog with no model, or with no
\* feature vector, leaves the index with count 0.
C5_EmptyRebuildEmptiesIndex ==
    (ev.op = "rebuild_index" /\ ev.out \in {"no_models", "no_vectors"}) =>
        ntotal(index) = 0 /\ model_ids = <<>>

\* C6: on a ready manager, an add_model whose vector is not of the index
\* dimension ends at once with the dimension error, and the step changes
\* neither the index, the identifier list, the dimension nor the files.
C6_WrongLengthInsertRejected ==
    [][(/\ ready
        /\ ev'.op = "add_model"
        /\ ev'.step \in {"call", "index.add"}
        /\ Len(ev'.vec) # dimension)
       => (/\ ev'.step = "call"
           /\ ev'.out = "ValueError"
           /\ UNCHANGED <<memory, disk, ready, search_engine, requests>>)]_vars

\* C6's case: a wrong-length insert rejected by a non-empty index.
C6_Witness ==
    /\ ev.op = "add_model"
    /\ ev.out = "ValueError"
    /\ ntotal(index) > 0
    /\ index_file.st = "ok"

\* C7: when a save has completed, loading its two files into a new engine
\* gives the engine that was saved (dimension, identifiers in order, rows),
\* and every query then returns on it what it returns on the saved one.
C7_PersistRestoreRoundTrip ==
    (ev.step = "return" /\ ev.saved /\ Quiescent) =>
        LET r == Load(NewEngine(Dim), index_file, metadata_file)
        IN  /\ r.out = "ok"
            /\ r.eng.dimension = dimension
            /\ r.eng.model_ids = model_ids
            /\ r.eng.index = index
            /\ \A q \in Queries, k \in Ks, strict \in BOOLEAN :
                  Search(r.eng, q, k, strict) = Search(Engine, q, k, strict)

\* C7's case: a completed save of an index of two different models.
C7_Witness ==
    /\ ev.step = "return"
    /\ ev.saved
    /\ Quiescent
    /\ ntotal(index) = 2
    /\ Len(model_ids) = 2
    /\ model_ids[1] # model_ids[2]

\* The files cannot be restored as a whole.
BadSource(blob, meta) ==
    \/ blob.st # "ok"
    \/ meta.st # "ok"
    \/ Len(blob.xb) # Len(meta.model_ids)
    \/ blob.d # meta.dimension

\* C8 (as claimed): initialize always ends ready, and from a missing,
\* unreadable or inconsistent pair of files it leaves the index empty.
C8_RestoreAllOrNothing ==
    ev.op = "initialize" =>
        /\ ready
        /\ BadSource(index_file, metadata_file) =>
               ntotal(index) = 0 /\ model_ids = <<>>

\* C9: before initialize has run, a step that is an add_model or a
\* search_similar call ends the call with the not-initialized error and
\* changes neither the index nor the files; so such a call is accepted only
\* by a ready manager.
C9_RejectedUntilReady ==
    [][(/\ ~ready
        /\ ev'.op \in {"add_model", "search_similar"}
        /\ ev'.step \in {"call", "index.add"})
       => (/\ ev'.out = "RuntimeError"
           /\ UNCHANGED <<memory, disk, ready, search_engine, requests>>)]_vars

\* C9's case: a call rejected before initialize, with an index on disk.
C9_Witness ==
    /\ ~ready
    /\ ev.op \in {"add_model", "search_similar"}
    /\ ev.out = "RuntimeError"
    /\ index_file.st = "ok"
    /\ Len(index_file.xb) > 0

\* C10 (as claimed): when shutdown has completed, the manager is no longer
\* ready.
C10_ShutDownIsNotReady ==
    (ev.op = "shutdown" /\ ev.step = "return") => ~ready

\* The index holds an entry for id: an identifier with a stored row.
Holds(id) == \E i \in 1..Min(Len(model_ids), ntotal(index)) : model_ids[i] = id

\* C11 (as claimed): a search that starts when add_model has returned for id,
\* and no rebuild omitting id has been performed since, scans an index that
\* holds id; with a valid query and k at least the count, its hits name id.
C11_SearchSeesReturnedAdd ==
    (ev.op = "search_similar" /\ Quiescent /\ ready) =>
        \A id \in inserted :
            /\ Holds(id)
            /\ (Len(ev.vec) = dimension /\ ev.k >= ntotal(index)) =>
                   /\ ev.out = "ok"
                   /\ \E r \in 1..Len(ev.hits) : ev.hits[r].id = id

\* What the two files hold: the rows of the blob, the identifier list.
DurableRows == IF index_file.st = "ok" THEN index_file.xb ELSE <<>>
DurableIds == IF metadata_file.st = "ok" THEN metadata_file.model_ids ELSE <<>>

\* C12 (as claimed): when add_model, rebuild_index or shutdown has returned
\* normally on a ready manager, with no failed write in that call and no
\* other call in flight, the files hold the rows and the identifiers of the
\* in-memory index, in the same order.
C12_EveryReturnFlushed ==
    (/\ ready
     /\ Quiescent
     /\ ev.op \in {"add_model", "rebuild_index", "shutdown"}
     /\ \/ ev.step = "return" /\ ev.out = "ok" /\ ev.saved
        \/ ev.step = "call" /\ ev.out \in {"ok", "no_models", "no_vectors"})
    => (DurableRows = index.xb /\ DurableIds = model_ids)

\* C13: a save that fails ends the call that awaited it normally, and no
\* step of a save, failed or not, changes the in-memory index, the
\* identifier list, the dimension or the manager's readiness: what add_model
\* or rebuild_index put in memory before the flush is there after it.
C13_FailedSaveNonFatal ==
    [][\A t \in Tasks :
          /\ (Saving(t) /\ pc'[t] # pc[t]) =>
                 UNCHANGED <<memory, ready, search_engine>>
          /\ (Saving(t) /\ pc'[t] = "idle" /\ ~ev'.saved) =>
                 (ev'.step = "return" /\ ev'.op = op[t] /\ ev'.out = "ok")]_vars

\* C13's case: add_model has returned after a failed save, its entry is in
\* memory and not in the files.
C13_Witness ==
    /\ ev.op = "add_model"
    /\ ev.step = "return"
    /\ ev.out = "ok"
    /\ ~ev.saved
    /\ ntotal(index) > 0
    /\ \A id \in inserted : Holds(id)
    /\ inserted # {}
    /\ DurableRows # index.xb

C15_EntriesRemovedOnlyByRebuild ==
    (ready /\ LoopFree) => \A id \in inserted : Holds(id)

\* C16 (as claimed): a search with a query of the index dimension returns at
\* most min(k, count) hits, and on an empty index it returns the empty
\* sequence.
C16_AtMostMinKCountHits ==
    (ev.op = "search_similar" /\ ready /\ Len(ev.vec) = dimension) =>
        /\ Len(ev.hits) <= Min(ev.k, ntotal(index))
        /\ ntotal(index) = 0 => (ev.out = "ok" /\ ev.hits = <<>>)

NearerInsertedLast ==
    /\ ev.op = "search_similar"
    /\ ev.out = "ok"
    /\ model_ids = <<2, 1>>
    /\ ev.vec = Axis(1, 2)
    /\ Len(ev.hits) = 2
    /\ ev.hits[1].id = 1
    /\ ev.hits[1].score > ev.hits[2].score

WrongLength(catalog, dim) ==
    \E i \in 1..Len(catalog) : catalog[i].fv # <<>> /\ Len(catalog[i].fv) # dim

\* C19: on a ready manager, a search whose query is not of the index
\* dimension ends with the dimension error and no hit; a rebuild from a
\* catalog with a vector of another length either ends at once with the
\* error or reaches add_vectors with rows of one length, and add_vectors
\* then ends it with the dimension error and adds nothing; and every row
\* the index holds has the index dimension.
C19_WrongLengthFails ==
    [][/\ (ready /\ ev'.op = "search_similar" /\ Len(ev'.vec) # dimension) =>
              (ev'.out = "ValueError" /\ ev'.hits = <<>>)
       /\ \A t \in Tasks, c \in Catalogs :
              (/\ ready
               /\ ev'.op = "rebuild_index"
               /\ WrongLength(c, dimension)
               /\ RebuildIndex(t, c)) =>
                  \/ ev' = Called("rebuild_index", "ValueError")
                  \/ /\ pc'[t] = "rb_clear"
                     /\ \A i \in 1..Len(arg'[t]) : Len(arg'[t][i].fv) # dimension
       /\ \A t \in Tasks :
              (/\ pc[t] = "add_vectors"
               /\ pc'[t] # pc[t]
               /\ \E i \in 1..Len(arg[t]) : Len(arg[t][i].fv) # dimension) =>
                  (ev' = Return("rebuild_index", "ValueError") /\ index' = index)
       /\ \A i \in 1..ntotal(index') : Len(index'.xb[i]) = dimension']_vars

\* C19's case: a rebuild whose vectors are all one value short has been
\* ended by add_vectors' dimension check.
C19_Witness ==
    /\ ev = Return("rebuild_index", "ValueError")
    /\ ready

Names(f, a, b) == [i \in 1..(b - a + 1) |-> f[a + i - 1].name]

\* C20: when extract_features has returned, its result has 83 values: 64
\* bins of the D2 histogram, then log_volume, log_surface_area, compactness,
\* aspect_ratio and edge_density, then the three ratios of the bounding box,
\* then the convexity, then the ten moments (mean and std per axis, three
\* eigenvalues, the trace); and _compute_moments returned ten values.
C20_FeatureLayout ==
    (ev.op = "extract_features" /\ ev.out = "ok") =>
        LET f == feature_vector.features
        IN  /\ Len(f) = FeatureDim
            /\ \A i \in 1..64 : f[i].name = "d2"
            /\ Names(f, 65, 69) = <<"log_volume", "log_surface_area", "compactness",
                                    "aspect_ratio", "edge_density">>
            /\ Names(f, 70, 72) = <<"ratio_xy", "ratio_yz", "ratio_xz">>
            /\ Names(f, 73, 73) = <<"convexity">>
            /\ Names(f, 74, 83) = <<"mean", "std", "mean", "std", "mean", "std",
                                    "eigenvalue", "eigenvalue", "eigenvalue", "trace">>
            /\ Len(ComputeMoments(mesh)) = 10
            /\ SubSeq(f, 74, 83) = ComputeMoments(mesh)

\* C20's case: extraction has succeeded on a mesh that is not watertight and
\* has a flat bounding box.
C20_Witness ==
    /\ ev.op = "extract_features"
    /\ ev.out = "ok"
    /\ ~mesh.watertight
    /\ mesh.extents[2] = 0
    /\ Len(feature_vector.features) = FeatureDim

\* C21: _compute_convexity returns for every mesh, a value in [0, 1]: 0.5
\* for a mesh that is not watertight and when the hull computation raises,
\* 1.0 for a watertight mesh whose hull has no volume, and otherwise 0 for a
\* ratio volume / hull volume below 0, 1 for one above 1, else the ratio;
\* and it is the value extract_features puts in the convexity's place.
C21_ConvexityValue ==
    (ev.op = "extract_features") =>
        LET c == ComputeConvexity(mesh)
            ratio == (mesh.volume * ConvexityOne) \div mesh.hull
        IN  /\ 0 <= c /\ c <= ConvexityOne
            /\ (~mesh.watertight \/ mesh.hull_raises) => 2 * c = ConvexityOne
            /\ (mesh.watertight /\ ~mesh.hull_raises /\ mesh.hull = 0) => c = ConvexityOne
            /\ (mesh.watertight /\ ~mesh.hull_raises /\ mesh.hull > 0) =>
                   c = (IF ratio < 0 THEN 0 ELSE IF ratio > ConvexityOne
                                                   THEN ConvexityOne ELSE ratio)
            /\ ev.out = "ok" => feature_vector.features[73] = Feat("convexity", c)

\* C21's case: a watertight mesh of more volume than its hull, its convexity
\* clamped to 1.
C21_Witness ==
    /\ ev.op = "extract_features"
    /\ ev.out = "ok"
    /\ mesh.watertight
    /\ ~mesh.hull_raises
    /\ mesh.hull > 0
    /\ mesh.volume > mesh.hull
    /\ feature_vector.features[73].val = ConvexityOne

\* C22 (as claimed): of the saves that add_model and rebuild_index calls
\* await, at most one stands between its write of the index blob and its
\* write of the metadata record, so the writes of two saves never interleave.
C22_OneSaveAtATime ==
    Cardinality({t \in Tasks : /\ pc[t] = "save_meta"
                               /\ op[t] \in {"add_model", "rebuild_index"}}) <= 1

\* C23: a step that is a search_similar call, whatever its outcome, changes
\* neither the index, the identifier list, the dimension, the manager's
\* readiness, the files nor the calls in flight.
C23_SearchReadOnly ==
    [][ev'.op = "search_similar" =>
          UNCHANGED <<memory, ready, search_engine, disk, requests>>]_vars

\* C23's case: a search for fewer neighbours than the index holds has
\* returned, and the index and its files still hold both entries.
C23_Witness ==
    /\ ev.op = "search_similar"
    /\ ev.out = "ok"
    /\ Len(ev.hits) = 1
    /\ Len(model_ids) = 2
    /\ ntotal(index) = 2
    /\ DurableIds = model_ids

=============================================================================
